---------------------------- MODULE Spec2Model ----------------------------
(***************************************************************************)
(* A model of layout_id_cards_fixed.py: one run of layout_pdf (argument    *)
(* parsing, page geometry, grid planning, pagination, image placement),    *)
(* and the pure helpers get_page_size, compute_auto_grid / max_fit and     *)
(* place_image applied to bounded inputs.                                  *)
(*                                                                         *)
(* Lengths.  Every length after conversion is an integer number of         *)
(* micro-points (1e-6 pt), so that the tolerance 1e-6 of the source is one *)
(* unit (Eps).  A length argument (page size, card size, margin, spacing)  *)
(* is an integer number of micro-inches (2.54e-6 cm), so that x_cm / 2.54  *)
(* is the argument itself and cm_to_points multiplies it by inch.          *)
(* Arithmetic is exact; floating-point rounding is not modelled.           *)
(*                                                                         *)
(* Arguments are fixed for the whole run.  The model draws each group of   *)
(* arguments at the step where the code first reads it, and keeps it.      *)
(***************************************************************************)
EXTENDS Integers, Sequences, FiniteSets

\* ------------------------------------------------------------- bounds
MaxImages == 3      \* list_images returns 0..MaxImages files
MaxPages  == 5      \* the pagination loop is followed for at most MaxPages pages
MaxGrid   == 2      \* explicit --rows / --cols are drawn from -1..MaxGrid
MaxDim    == 5      \* get_page_size alone: custom sides of 1..MaxDim micro-inches
MaxSpace  == 7      \* compute_auto_grid alone: page sides of 0..MaxSpace micro-points
MaxItem   == 3      \* compute_auto_grid alone: card sides of 1..MaxItem micro-points
MaxGap    == 2      \* compute_auto_grid alone: spacing of 0..MaxGap micro-points
MaxBox    == 4      \* place_image alone: cell sides of 1..MaxBox micro-points
MaxPix    == 3      \* place_image alone: image sides of 0..MaxPix pixels

\* ---------------------------------------------------- program constants
inch == 72          \* reportlab.lib.units.inch: points per inch
Eps  == 1           \* the tolerance 1e-6 pt of max_fit and of the overflow test

None == << >>
Some(v) == << v >>
IsNone(o) == o = << >>
Val(o) == o[1]

Max(a, b) == IF a >= b THEN a ELSE b
NonNeg(a) == IF a >= 0 THEN a ELSE 0
Half(a) == a \div 2

letter == << 612000000, 792000000 >>
A4 == << 595275590, 841889764 >>

VARIABLES
    pc,                 \* position of the run / of the helper call
    err,                \* which exit ended the run ("none" while it runs)
    auto_grid, arg_rows, arg_cols,                   \* args.auto_grid, args.rows, args.cols
    page_w, page_h,                                  \* get_page_size(args)
    margin_pts, spacing_pts, card_w_pts, card_h_pts, \* converted lengths
    rows, cols, total_grid_w, total_grid_h,          \* the grid layout_pdf paginates with
    grid_warning,                                    \* "grid too large" was printed
    n,                                               \* len(images)
    order, fit, include_filenames,                   \* args.order, args.fit, args.include_filenames
    page_index,                                      \* loop counter = showPage calls so far
    cells,                                           \* place_image calls so far, in call order
    labels,                                          \* drawCentredString calls so far
    fn_in, fn_out                                    \* a helper applied on its own: input, result

argvars  == << auto_grid, arg_rows, arg_cols >>
pagevars == << page_w, page_h >>
lenvars  == << margin_pts, spacing_pts, card_w_pts, card_h_pts >>
gridvars == << rows, cols, total_grid_w, total_grid_h, grid_warning >>
loopvars == << n, order, fit, include_filenames, page_index, cells, labels >>
fnvars   == << fn_in, fn_out >>
vars == << pc, err, argvars, pagevars, lenvars, gridvars, loopvars, fnvars >>

\* ------------------------------------------------------- cm_to_points
cm_to_points(x) == x * inch

\* ------------------------------------------------------ get_page_size
\* reportlab.lib.pagesizes.landscape / portrait: put the longer side first / last.
landscape(ps) == IF ps[1] < ps[2] THEN << ps[2], ps[1] >> ELSE << ps[1], ps[2] >>

portrait(ps) == IF ps[1] >= ps[2] THEN << ps[2], ps[1] >> ELSE << ps[1], ps[2] >>

\* a = [page, landscape, page_width, page_height]; exit = SystemExit raised.
get_page_size(a) ==
    IF a.page = "custom" /\ (IsNone(a.page_width) \/ IsNone(a.page_height))
    THEN [exit |-> TRUE, w |-> 0, h |-> 0]
    ELSE LET ps == IF a.page = "letter" THEN letter
                   ELSE IF a.page = "a4" THEN A4
                   ELSE << cm_to_points(Val(a.page_width)), cm_to_points(Val(a.page_height)) >>
             out == IF a.landscape THEN landscape(ps) ELSE portrait(ps)
         IN [exit |-> FALSE, w |-> out[1], h |-> out[2]]

\* -------------------------------------------------- compute_auto_grid
Needed(k, item, gap) == k * item + Max(0, k - 1) * gap

RECURSIVE max_fit_loop(_, _, _, _)
max_fit_loop(space, item, gap, k) ==
    IF Needed(k, item, gap) <= space + Eps
    THEN max_fit_loop(space, item, gap, k + 1)
    ELSE Max(1, k - 1)

\* Variant: the tolerance is left out of the comparison.
max_fit_no_tolerance(space, item, gap) == max_fit_loop(space - Eps, item, gap, 0)

max_fit(space, item, gap) == max_fit_loop(space, item, gap, 0)

compute_auto_grid(pw, ph, margin, cw, ch, gap) ==
    LET usable_w == pw - 2 * margin
        usable_h == ph - 2 * margin
    IN [rows |-> max_fit(usable_h, ch, gap), cols |-> max_fit(usable_w, cw, gap)]

\* -------------------------------------------------------- place_image
\* A file is [opens, iw, ih]: whether Image.open succeeds, and img.size.
\* A draw is one c.drawImage call.  Its rectangle is exact: it is
\*   width  = w_num / den,            height = h_num / den,
\*   left   = x + xoff_num / (2*den), bottom = y + yoff_num / (2*den),
\* where (x, y) is the cell origin handed to place_image; clip says the
\* call is made under a clip path equal to the cell box.
\* img_ar > box_ar is iw/ih > box_w/box_h, compared by cross-multiplication
\* (ih > 0 and box_h > 0 where it is evaluated).
Draw(x, y, den, w_num, h_num, bw, bh, clipped) ==
    [x |-> x, y |-> y, den |-> den, w_num |-> w_num, h_num |-> h_num,
     xoff_num |-> bw * den - w_num, yoff_num |-> bh * den - h_num,
     clip |-> clipped]

WidthFirst(iw, ih, bw, bh) == iw * bh > bw * ih

\* Variant: the two clamps of contain are exchanged.
contain_rect_swapped(x, y, iw, ih, bw, bh) ==
    IF WidthFirst(iw, ih, bw, bh)
    THEN Draw(x, y, ih, bh * iw, bh * ih, bw, bh, FALSE)
    ELSE Draw(x, y, iw, bw * iw, bw * ih, bw, bh, FALSE)

contain_rect(x, y, iw, ih, bw, bh) ==
    IF WidthFirst(iw, ih, bw, bh)
    THEN Draw(x, y, iw, bw * iw, bw * ih, bw, bh, FALSE)
    ELSE Draw(x, y, ih, bh * iw, bh * ih, bw, bh, FALSE)

cover_rect(x, y, iw, ih, bw, bh) ==
    IF WidthFirst(iw, ih, bw, bh)
    THEN Draw(x, y, ih, bh * iw, bh * ih, bw, bh, TRUE)
    ELSE Draw(x, y, iw, bw * iw, bw * ih, bw, bh, TRUE)

place_image(file, x, y, bw, bh, fit_mode) ==
    IF ~file.opens
    THEN [warning |-> TRUE, draws |-> << >>]
    ELSE IF file.iw = 0 \/ file.ih = 0
    THEN [warning |-> FALSE, draws |-> << >>]
    ELSE IF fit_mode = "stretch"
    THEN [warning |-> FALSE, draws |-> << Draw(x, y, 1, bw, bh, bw, bh, FALSE) >>]
    ELSE IF fit_mode = "contain"
    THEN [warning |-> FALSE, draws |-> << contain_rect(x, y, file.iw, file.ih, bw, bh) >>]
    ELSE [warning |-> FALSE, draws |-> << cover_rect(x, y, file.iw, file.ih, bw, bh) >>]

\* ============================================================ the run
\* Inputs of a run.  Lengths are whole and half inches, so that every
\* halving in layout_pdf is exact.
GridArgs == { None } \cup { Some(k) : k \in -1 .. MaxGrid }

RunPageArgs ==
    { [page |-> "letter", landscape |-> l, page_width |-> None, page_height |-> None] :
        l \in BOOLEAN }
    \cup
    { [page |-> "custom", landscape |-> l, page_width |-> w, page_height |-> h] :
        l \in BOOLEAN, w \in { None, Some(4000000) }, h \in { None, Some(7000000) } }

RunCardWidths  == { 3000000, 5000000 }
RunCardHeights == { 3000000 }
RunMargins     == { 0, 1000000 }
RunSpacings    == { 0, 500000 }

RunFiles ==
    { [opens |-> FALSE, iw |-> 0, ih |-> 0],
      [opens |-> TRUE,  iw |-> 0, ih |-> 2],
      [opens |-> TRUE,  iw |-> 3, ih |-> 2] }

Orders   == { "row-major", "col-major" }
FitModes == { "contain", "cover", "stretch" }

Idle ==
    /\ err = "none"
    /\ auto_grid = FALSE /\ arg_rows = None /\ arg_cols = None
    /\ page_w = 0 /\ page_h = 0
    /\ margin_pts = 0 /\ spacing_pts = 0 /\ card_w_pts = 0 /\ card_h_pts = 0
    /\ rows = 0 /\ cols = 0 /\ total_grid_w = 0 /\ total_grid_h = 0
    /\ grid_warning = FALSE
    /\ n = 0 /\ order = "row-major" /\ fit = "contain" /\ include_filenames = FALSE
    /\ page_index = 0 /\ cells = << >> /\ labels = << >>

Init ==
    /\ pc = "parse_args"
    /\ Idle
    /\ fn_in = << >> /\ fn_out = << >>

\* parse_args: --auto-grid and --rows are mutually exclusive (argparse exits);
\* --cols is outside the group.
\* Variant: --rows is not in the mutually exclusive group.
parse_args_rejects_nothing(ag, r, c) == FALSE

parse_args_rejects(ag, r, c) == ag /\ ~IsNone(r)

ParseArgs ==
    /\ pc = "parse_args"
    /\ \E ag \in BOOLEAN, r \in GridArgs, c \in GridArgs :
         /\ auto_grid' = ag /\ arg_rows' = r /\ arg_cols' = c
         /\ IF parse_args_rejects(ag, r, c)
            THEN pc' = "error" /\ err' = "usage"
            ELSE pc' = "get_page_size" /\ err' = err
    /\ UNCHANGED << pagevars, lenvars, gridvars, loopvars, fnvars >>

\* layout_pdf, line 136.
GetPageSize ==
    /\ pc = "get_page_size"
    /\ \E a \in RunPageArgs :
         LET r == get_page_size(a) IN
         IF r.exit
         THEN pc' = "error" /\ err' = "page" /\ UNCHANGED pagevars
         ELSE pc' = "plan_grid" /\ err' = err /\ page_w' = r.w /\ page_h' = r.h
    /\ UNCHANGED << argvars, lenvars, gridvars, loopvars, fnvars >>

\* layout_pdf, lines 142-159, on converted lengths: the grid, its footprint,
\* whether the warning is printed, whether SystemExit is raised.
Footprint(k, item, gap) == k * item + (k - 1) * gap

\* Variants: only one axis is tested.
grid_too_large_width_only(gw, gh, usable_w, usable_h) == gw > usable_w + Eps

grid_too_large_height_only(gw, gh, usable_w, usable_h) == gh > usable_h + Eps

\* line 155
grid_too_large(gw, gh, usable_w, usable_h) ==
    gw > usable_w + Eps \/ gh > usable_h + Eps

plan_grid(ag, r, c, pw, ph, margin, cw, ch, gap) ==
    IF ~ag /\ (IsNone(r) \/ IsNone(c))
    THEN [exit |-> TRUE, rows |-> 0, cols |-> 0, warning |-> FALSE]
    ELSE LET auto == compute_auto_grid(pw, ph, margin, cw, ch, gap)
             r0 == IF ag THEN auto.rows ELSE Val(r)
             c0 == IF ag THEN auto.cols ELSE Val(c)
             usable_w == pw - 2 * margin
             usable_h == ph - 2 * margin
             too_large == grid_too_large(Footprint(c0, cw, gap), Footprint(r0, ch, gap),
                                         usable_w, usable_h)
         IN [exit |-> FALSE,
             rows |-> IF too_large THEN auto.rows ELSE r0,
             cols |-> IF too_large THEN auto.cols ELSE c0,
             warning |-> too_large]

PlanGrid ==
    /\ pc = "plan_grid"
    /\ \E m \in RunMargins, s \in RunSpacings, w \in RunCardWidths, h \in RunCardHeights :
         /\ margin_pts' = cm_to_points(m)
         /\ spacing_pts' = cm_to_points(s)
         /\ card_w_pts' = cm_to_points(w)
         /\ card_h_pts' = cm_to_points(h)
         /\ LET g == plan_grid(auto_grid, arg_rows, arg_cols, page_w, page_h,
                               margin_pts', card_w_pts', card_h_pts', spacing_pts')
            IN IF g.exit
               THEN /\ pc' = "error" /\ err' = "grid"
                    /\ UNCHANGED gridvars
               ELSE /\ pc' = "list_images" /\ err' = err
                    /\ rows' = g.rows /\ cols' = g.cols
                    /\ total_grid_w' = Footprint(g.cols, card_w_pts', spacing_pts')
                    /\ total_grid_h' = Footprint(g.rows, card_h_pts', spacing_pts')
                    /\ grid_warning' = g.warning
    /\ UNCHANGED << argvars, pagevars, loopvars, fnvars >>

\* layout_pdf, lines 164-175: list_images exits on an empty folder; the canvas
\* is opened and the loop counters set.
ListImages ==
    /\ pc = "list_images"
    /\ \E k \in 0 .. MaxImages, o \in Orders, f \in FitModes, inc \in BOOLEAN :
         /\ n' = k
         /\ IF k = 0
            THEN /\ pc' = "error" /\ err' = "no_images"
                 /\ UNCHANGED << order, fit, include_filenames >>
            ELSE /\ pc' = "paginate" /\ err' = err
                 /\ order' = o /\ fit' = f /\ include_filenames' = inc
    /\ UNCHANGED << argvars, pagevars, lenvars, gridvars, page_index, cells, labels, fnvars >>

\* layout_pdf, lines 161-162 and 173.
start_x == Half(page_w - total_grid_w)
start_y_top == page_h - Half(page_h - total_grid_h)
per_page == rows * cols

\* lines 178-183: the cells of one page in the order the two for loops visit
\* them (range of a non-positive count is empty), and the image of a cell.
CellSeq == [j \in 1 .. NonNeg(rows) * NonNeg(cols) |->
              [r |-> (j - 1) \div cols, col |-> (j - 1) % cols]]

\* Variant: the two fill orders are exchanged.
cell_index_swapped(r, col) == IF order = "row-major" THEN col * rows + r ELSE r * cols + col

cell_index(r, col) == IF order = "row-major" THEN r * cols + col ELSE col * rows + r

img_index(r, col) == page_index * per_page + cell_index(r, col)

cell_x(col) == start_x + col * (card_w_pts + spacing_pts)
cell_y(r) == start_y_top - r * (card_h_pts + spacing_pts) - card_h_pts

ActiveCells == SelectSeq(CellSeq, LAMBDA c : img_index(c.r, c.col) < n)

\* One place_image call (line 187) on the file found at the image's path.
Placement(c, file) ==
    LET res == place_image(file, cell_x(c.col), cell_y(c.r), card_w_pts, card_h_pts, fit)
    IN [img |-> img_index(c.r, c.col), page |-> page_index, r |-> c.r, col |-> c.col,
        x |-> cell_x(c.col), y |-> cell_y(c.r), file |-> file,
        warning |-> res.warning, draws |-> res.draws]

\* One drawCentredString call (lines 189-191).
Label(c) ==
    [img |-> img_index(c.r, c.col), page |-> page_index,
     x |-> cell_x(c.col) + Half(card_w_pts), y |-> cell_y(c.r) - 6000000]

\* One iteration of the while loop (lines 177-193), showPage included.
EmitPage ==
    /\ pc = "paginate"
    /\ page_index * per_page < n
    /\ page_index < MaxPages
    /\ \E files \in [1 .. Len(ActiveCells) -> RunFiles] :
         /\ cells' = cells \o [j \in 1 .. Len(ActiveCells) |-> Placement(ActiveCells[j], files[j])]
         /\ labels' = IF include_filenames
                      THEN labels \o [j \in 1 .. Len(ActiveCells) |-> Label(ActiveCells[j])]
                      ELSE labels
    /\ page_index' = page_index + 1
    /\ UNCHANGED << pc, err, argvars, pagevars, lenvars, gridvars,
                    n, order, fit, include_filenames, fnvars >>

\* The loop condition fails: lines 195-197.
Save ==
    /\ pc = "paginate"
    /\ ~(page_index * per_page < n)
    /\ pc' = "done"
    /\ UNCHANGED << err, argvars, pagevars, lenvars, gridvars, loopvars, fnvars >>

Next == ParseArgs \/ GetPageSize \/ PlanGrid \/ ListImages \/ EmitPage \/ Save

Spec == Init /\ [][Next]_vars

\* ================================================ helpers on their own
\* Each helper is applied once to an input drawn from a bounded set.
PageArgs ==
    { [page |-> p, landscape |-> l, page_width |-> w, page_height |-> h] :
        p \in { "letter", "a4", "custom" }, l \in BOOLEAN,
        w \in { None } \cup { Some(k) : k \in 1 .. MaxDim },
        h \in { None } \cup { Some(k) : k \in 1 .. MaxDim } }

InitPage ==
    /\ pc = "call_get_page_size"
    /\ Idle
    /\ fn_in \in PageArgs /\ fn_out = << >>

CallGetPageSize ==
    /\ pc = "call_get_page_size"
    /\ fn_out' = get_page_size(fn_in)
    /\ pc' = "ret_get_page_size"
    /\ UNCHANGED << err, argvars, pagevars, lenvars, gridvars, loopvars, fn_in >>

SpecPage == InitPage /\ [][CallGetPageSize]_vars

GridInputs ==
    [page_w : 0 .. MaxSpace, page_h : 0 .. MaxSpace, margin : 0 .. 1,
     card_w : 1 .. MaxItem, card_h : 1 .. MaxItem, spacing : 0 .. MaxGap]

InitGrid ==
    /\ pc = "call_compute_auto_grid"
    /\ Idle
    /\ fn_in \in GridInputs /\ fn_out = << >>

CallComputeAutoGrid ==
    /\ pc = "call_compute_auto_grid"
    /\ fn_out' = compute_auto_grid(fn_in.page_w, fn_in.page_h, fn_in.margin,
                                   fn_in.card_w, fn_in.card_h, fn_in.spacing)
    /\ pc' = "ret_compute_auto_grid"
    /\ UNCHANGED << err, argvars, pagevars, lenvars, gridvars, loopvars, fn_in >>

SpecGrid == InitGrid /\ [][CallComputeAutoGrid]_vars

PlaceInputs ==
    { [file |-> [opens |-> o, iw |-> iw, ih |-> ih], x |-> x, y |-> 0,
       box_w |-> bw, box_h |-> bh, fit |-> f] :
        o \in BOOLEAN, iw \in 0 .. MaxPix, ih \in 0 .. MaxPix, x \in { 0, 5 },
        bw \in 1 .. MaxBox, bh \in 1 .. MaxBox, f \in FitModes }

InitPlace ==
    /\ pc = "call_place_image"
    /\ Idle
    /\ fn_in \in PlaceInputs /\ fn_out = << >>

CallPlaceImage ==
    /\ pc = "call_place_image"
    /\ fn_out' = place_image(fn_in.file, fn_in.x, fn_in.y, fn_in.box_w, fn_in.box_h, fn_in.fit)
    /\ pc' = "ret_place_image"
    /\ UNCHANGED << err, argvars, pagevars, lenvars, gridvars, loopvars, fn_in >>

SpecPlace == InitPlace /\ [][CallPlaceImage]_vars

\* ============================================================= claims
UsableW == page_w - 2 * margin_pts
UsableH == page_h - 2 * margin_pts
AutoGrid == compute_auto_grid(page_w, page_h, margin_pts, card_w_pts, card_h_pts, spacing_pts)
Explicit == ~auto_grid /\ ~IsNone(arg_rows) /\ ~IsNone(arg_cols)
PastPlanning == pc \in { "list_images", "paginate", "done" } \/ err \in { "grid", "no_images" }
InLoop == pc \in { "paginate", "done" }
CeilDiv(a, b) == (a + b - 1) \div b
TimesPlaced(i) == Cardinality({ j \in 1 .. Len(cells) : cells[j].img = i })
Failing(f) == ~f.opens \/ f.iw = 0 \/ f.ih = 0

\* C1: when the run has finished, the number of pages emitted is ceil(N/C)
\* for C = rows*cols, and every image index 0..N-1 was handed to a cell
\* exactly once.
C1_PagesAndAssignment ==
    pc = "done" =>
        /\ page_index = CeilDiv(n, per_page)
        /\ \A i \in 0 .. n - 1 : TimesPlaced(i) = 1

\* The same statement for grids with at least one row and one column.
ValidGridPagination ==
    pc = "done" /\ rows >= 1 /\ cols >= 1 =>
        /\ page_index = CeilDiv(n, per_page)
        /\ \A i \in 0 .. n - 1 : TimesPlaced(i) = 1

\* C2 (as stated): every grid that reaches the pagination loop satisfies the
\* footprint inequality on both axes.
C2_FootprintAlwaysFits ==
    InLoop =>
        /\ Footprint(cols, card_w_pts, spacing_pts) <= UsableW + Eps
        /\ Footprint(rows, card_h_pts, spacing_pts) <= UsableH + Eps

AxisFitsOrFloor(count, item, usable) ==
    \/ Footprint(count, item, spacing_pts) <= usable + Eps
    \/ count = 1 /\ item > usable + Eps

\* C2 (amended): on each axis the grid that reaches the pagination loop
\* satisfies the footprint inequality, or it is the floor of one card on an
\* axis where not even one card fits.
C2_FootprintFitsOrFloor ==
    InLoop =>
        /\ AxisFitsOrFloor(cols, card_w_pts, UsableW)
        /\ AxisFitsOrFloor(rows, card_h_pts, UsableH)

C2_Witness ==
    /\ pc = "paginate" /\ page_index >= 1
    /\ cols = 1 /\ card_w_pts > UsableW + Eps
    /\ rows >= 2 /\ Footprint(rows, card_h_pts, spacing_pts) <= UsableH + Eps

\* C3: an explicit rows and cols whose footprint exceeds the usable area on
\* either axis is replaced by compute_auto_grid's grid with a warning and the
\* run goes on; one that fits on both axes is used unchanged, without warning.
C3_ExplicitGridFallback ==
    Explicit =>
        /\ err # "grid"
        /\ PastPlanning =>
             LET over == \/ Val(arg_cols) * card_w_pts + (Val(arg_cols) - 1) * spacing_pts
                              > UsableW + Eps
                         \/ Val(arg_rows) * card_h_pts + (Val(arg_rows) - 1) * spacing_pts
                              > UsableH + Eps
             IN /\ over => rows = AutoGrid.rows /\ cols = AutoGrid.cols /\ grid_warning
                /\ ~over => rows = Val(arg_rows) /\ cols = Val(arg_cols) /\ ~grid_warning

C3_Witness ==
    /\ Explicit /\ grid_warning
    /\ << rows, cols >> # << Val(arg_rows), Val(arg_cols) >>
    /\ pc = "paginate" /\ page_index >= 1 /\ Len(cells) >= 1

FitsTol(k, space, item, gap) ==
    k * item + (IF k > 1 THEN (k - 1) * gap ELSE 0) <= space + Eps

IsMaxFit(count, space, item, gap) ==
    IF FitsTol(1, space, item, gap)
    THEN /\ count >= 1
         /\ FitsTol(count, space, item, gap)
         /\ ~FitsTol(count + 1, space, item, gap)
         /\ \A k \in 0 .. MaxSpace + 2 : FitsTol(k, space, item, gap) => k <= count
    ELSE count = 1

\* C4: max_fit returns the largest n with n*item + max(0, n-1)*spacing <=
\* space within the tolerance, and 1 when not even one item fits; cols comes
\* from the usable width and the card width, rows from the usable height and
\* the card height.
C4_MaxFitIsLargest ==
    pc = "ret_compute_auto_grid" =>
        /\ IsMaxFit(fn_out.cols, fn_in.page_w - 2 * fn_in.margin, fn_in.card_w, fn_in.spacing)
        /\ IsMaxFit(fn_out.rows, fn_in.page_h - 2 * fn_in.margin, fn_in.card_h, fn_in.spacing)

C4_Witness ==
    /\ pc = "ret_compute_auto_grid"
    /\ fn_out.cols >= 2
    /\ fn_out.cols * fn_in.card_w + (fn_out.cols - 1) * fn_in.spacing
         = fn_in.page_w - 2 * fn_in.margin + Eps
    /\ fn_out.rows = 1
    /\ fn_in.card_h > fn_in.page_h - 2 * fn_in.margin + Eps

\* C5: the pagination loop stops: it never goes on after as many pages as
\* there are images (a page of a loop that stops assigns at least one image).
C5_LoopStops ==
    pc = "paginate" => page_index <= n

\* C6: the image with linear cell index k on its page is drawn in row
\* k div cols, column k mod cols under row-major and in row k mod rows,
\* column k div rows under col-major; row 0 is the topmost row.
C6_CellOfImage ==
    \A j \in 1 .. Len(cells) :
        LET p == cells[j]
            k == p.img - p.page * per_page
        IN /\ 0 <= k /\ k < per_page
           /\ order = "row-major" => p.r = k \div cols /\ p.col = k % cols
           /\ order = "col-major" => p.r = k % rows /\ p.col = k \div rows
           /\ p.r = 0 => p.y + card_h_pts = start_y_top
           /\ \A i \in 1 .. Len(cells) : p.r < cells[i].r => p.y > cells[i].y

C6_Witness ==
    /\ order = "col-major" /\ rows >= 2 /\ cols >= 2
    /\ \E j \in 1 .. Len(cells) :
         cells[j].img - cells[j].page * per_page = rows /\ cells[j].r = 0 /\ cells[j].col = 1
    /\ \E j \in 1 .. Len(cells) : cells[j].r = 1

\* C7: an image that cannot be opened or has zero width or height is skipped
\* with a warning and nothing is drawn for it, neither image nor label; every
\* other image is drawn once; the run does not abort.
C7_FailingImagesSkipped ==
    /\ \A j \in 1 .. Len(cells) :
         /\ Failing(cells[j].file) =>
              /\ cells[j].warning
              /\ cells[j].draws = << >>
              /\ \A i \in 1 .. Len(labels) : labels[i].img # cells[j].img
         /\ ~Failing(cells[j].file) => Len(cells[j].draws) = 1
         /\ TimesPlaced(cells[j].img) = 1
    /\ Len(cells) >= 1 => err = "none"

\* C8 (as stated): grid planning exits only when exactly one of rows and cols
\* is given; with neither given the grid is compute_auto_grid's and the run
\* proceeds; with both given no configuration error is raised.
C8_ExitOnlyOnPartialGrid ==
    /\ err = "grid" => (IsNone(arg_rows) # IsNone(arg_cols))
    /\ PastPlanning /\ IsNone(arg_rows) /\ IsNone(arg_cols) =>
         err # "grid" /\ rows = AutoGrid.rows /\ cols = AutoGrid.cols
    /\ ~IsNone(arg_rows) /\ ~IsNone(arg_cols) => err # "grid"

\* C8 (amended): grid planning exits exactly when --auto-grid is not set and
\* rows or cols (or both) is missing; argument parsing exits exactly when
\* --auto-grid comes with --rows; with --auto-grid the grid is
\* compute_auto_grid's; rows and cols without --auto-grid raise no error.
C8_ExitUnlessAutoOrBoth ==
    /\ PastPlanning =>
         (err = "grid" <=> ~auto_grid /\ (IsNone(arg_rows) \/ IsNone(arg_cols)))
    /\ PastPlanning /\ auto_grid =>
         rows = AutoGrid.rows /\ cols = AutoGrid.cols
    /\ pc # "parse_args" => (err = "usage" <=> auto_grid /\ ~IsNone(arg_rows))
    /\ Explicit => err \notin { "grid", "usage" }

C8_Witness ==
    err = "grid" /\ ~auto_grid /\ IsNone(arg_rows) /\ IsNone(arg_cols)

\* C9: get_page_size returns the base size (the standard's portrait size, or
\* the custom width and height as given) without --landscape, and the base
\* size with width and height exchanged with it.
C9_SwapIffLandscape ==
    pc = "ret_get_page_size" /\ ~fn_out.exit =>
        LET base == IF fn_in.page = "letter" THEN letter
                    ELSE IF fn_in.page = "a4" THEN A4
                    ELSE << Val(fn_in.page_width) * inch, Val(fn_in.page_height) * inch >>
        IN << fn_out.w, fn_out.h >> =
             IF fn_in.landscape THEN << base[2], base[1] >> ELSE base

\* C10: under contain, an image of positive width and height is drawn once,
\* unclipped, with its native width/height ratio, no wider and no higher than
\* the cell, touching the cell on at least one axis, centred on both axes.
C10_ContainFits ==
    pc = "ret_place_image" /\ fn_in.fit = "contain" /\ fn_in.file.opens
      /\ fn_in.file.iw > 0 /\ fn_in.file.ih > 0 =>
        /\ Len(fn_out.draws) = 1
        /\ LET d == fn_out.draws[1]
               left == d.xoff_num
               right == 2 * (fn_in.box_w * d.den - d.w_num) - d.xoff_num
               below == d.yoff_num
               above == 2 * (fn_in.box_h * d.den - d.h_num) - d.yoff_num
           IN /\ d.den > 0 /\ ~d.clip
              /\ d.x = fn_in.x /\ d.y = fn_in.y
              /\ d.w_num * fn_in.file.ih = d.h_num * fn_in.file.iw
              /\ d.w_num <= fn_in.box_w * d.den
              /\ d.h_num <= fn_in.box_h * d.den
              /\ d.w_num = fn_in.box_w * d.den \/ d.h_num = fn_in.box_h * d.den
              /\ left = right /\ below = above
              /\ left >= 0 /\ below >= 0

C10_Witness ==
    /\ pc = "ret_place_image" /\ fn_in.fit = "contain" /\ fn_in.file.opens
    /\ fn_in.file.iw > 0 /\ fn_in.file.ih > 0
    /\ Len(fn_out.draws) = 1
    /\ fn_out.draws[1].w_num = fn_in.box_w * fn_out.draws[1].den
    /\ fn_out.draws[1].h_num < fn_in.box_h * fn_out.draws[1].den
    /\ fn_out.draws[1].yoff_num > 0

=============================================================================
